---- MODULE Spec2Model ----
(***************************************************************************)
(* The embedded static file server of vasu (src/src/main.rs, cmd_http,     *)
(* percent_decode, guess_mime) as a state machine.                         *)
(*                                                                         *)
(* Representation.  A Rust `String` is a sequence of Unicode code points   *)
(* (integers); its bytes are the UTF-8 encoding of those code points       *)
(* (as_bytes).  A file name or file content is a sequence of bytes         *)
(* (integers 0..255).  A response body is a sequence of pieces: an ASCII   *)
(* literal of the source (a TLA+ string), a run of code points, or a run   *)
(* of raw bytes.                                                           *)
(***************************************************************************)
EXTENDS Integers, Sequences, FiniteSets, TLC

VARIABLES
    fs,      \* the filesystem: node path -> [kind, data, readable]
    srv,     \* "Listening" | "Serving": position of the accept loop ("Stopped": the process ended)
    conn,    \* the accepted connection: what the client sent, and whether it was answered
    out,     \* the write_all calls made on the connection, in order
    log,     \* lines printed to stdout while serving the connection
    obs,     \* what the handler computed for the connection (path_str, full_path, kind, ...)
    dec,     \* percent_decode applied on its own: [input, output, done]
    mime,    \* guess_mime applied on its own: [input, output, done]
    hist     \* what is kept of the connection served before this one

vars == <<fs, srv, conn, out, log, obs, dec, mime, hist>>

(***************************************************************************)
(* Bounds of the model.                                                    *)
(***************************************************************************)
MaxData == 2        \* largest file content, in bytes
MaxDecodeLen == 4   \* longest free-form input of percent_decode
MaxExtLen == 3      \* longest free-form input of guess_mime

(***************************************************************************)
(* Characters the code names.                                              *)
(***************************************************************************)
Pct == 37       \* '%'
Slash == 47     \* '/'
Dot == 46       \* '.'
Plus == 43      \* '+'
Minus == 45     \* '-'
LF == 10        \* '\n', the terminator of read_line
SP == 32        \* ' '
Replacement == 65533   \* U+FFFD, what to_string_lossy puts for invalid UTF-8
Folder == 128193       \* U+1F4C1, the folder icon
Page == 128196         \* U+1F4C4, the file icon
BadByte == -1   \* in a connection's input: a byte that is not valid UTF-8

(***************************************************************************)
(* Sequences.                                                              *)
(***************************************************************************)
Take(s, n) == SubSeq(s, 1, IF n < Len(s) THEN n ELSE Len(s))

Drop(s, n) == SubSeq(s, n + 1, Len(s))

Range(s) == {s[i] : i \in 1..Len(s)}

RECURSIVE Flatten(_)
Flatten(ss) == IF ss = <<>> THEN <<>> ELSE Head(ss) \o Flatten(Tail(ss))

RECURSIVE SeqsUpTo(_, _)
SeqsUpTo(S, n) ==
    IF n = 0 THEN {<<>>}
    ELSE LET shorter == SeqsUpTo(S, n - 1)
         IN  shorter \cup {Append(s, c) : s \in shorter, c \in S}

\* Lexicographic order of two sequences of integers: Ord for OsString, str.
RECURSIVE LexLess(_, _)
LexLess(a, b) ==
    IF b = <<>> THEN FALSE
    ELSE IF a = <<>> THEN TRUE
    ELSE IF Head(a) # Head(b) THEN Head(a) < Head(b)
    ELSE LexLess(Tail(a), Tail(b))

(***************************************************************************)
(* UTF-8.                                                                  *)
(***************************************************************************)
\* The bytes of one code point in a String.
Utf8(c) ==
    IF c < 128 THEN <<c>>
    ELSE IF c < 2048 THEN <<192 + (c \div 64), 128 + (c % 64)>>
    ELSE IF c < 65536
         THEN <<224 + (c \div 4096), 128 + ((c \div 64) % 64), 128 + (c % 64)>>
    ELSE <<240 + (c \div 262144), 128 + ((c \div 4096) % 64),
           128 + ((c \div 64) % 64), 128 + (c % 64)>>

\* str::as_bytes: the bytes of a String.
as_bytes(s) == Flatten([i \in 1..Len(s) |-> Utf8(s[i])])

\* String::len: the length in bytes.
RECURSIVE str_len(_)
str_len(s) == IF s = <<>> THEN 0 ELSE Len(Utf8(Head(s))) + str_len(Tail(s))

IsCont(b) == b \in 128..191

\* The length of the valid UTF-8 sequence at the head of bytes b (0 if there is
\* none), and the length of the invalid prefix to replace otherwise.
Utf8Head(b) ==
    LET b1 == b[1]
        has(i) == Len(b) >= i
        second(lo, hi) == has(2) /\ b[2] \in lo..hi
    IN  IF b1 < 128 THEN [valid |-> 1, skip |-> 0]
        ELSE IF b1 \in 194..223
             THEN IF second(128, 191) THEN [valid |-> 2, skip |-> 0]
                  ELSE [valid |-> 0, skip |-> 1]
        ELSE IF b1 \in 224..239
             THEN LET ok2 == \/ b1 = 224 /\ second(160, 191)
                             \/ b1 \in 225..236 /\ second(128, 191)
                             \/ b1 = 237 /\ second(128, 159)
                             \/ b1 \in 238..239 /\ second(128, 191)
                  IN  IF ~ok2 THEN [valid |-> 0, skip |-> 1]
                      ELSE IF has(3) /\ IsCont(b[3]) THEN [valid |-> 3, skip |-> 0]
                      ELSE [valid |-> 0, skip |-> 2]
        ELSE IF b1 \in 240..244
             THEN LET ok2 == \/ b1 = 240 /\ second(144, 191)
                             \/ b1 \in 241..243 /\ second(128, 191)
                             \/ b1 = 244 /\ second(128, 143)
                  IN  IF ~ok2 THEN [valid |-> 0, skip |-> 1]
                      ELSE IF ~(has(3) /\ IsCont(b[3])) THEN [valid |-> 0, skip |-> 2]
                      ELSE IF has(4) /\ IsCont(b[4]) THEN [valid |-> 4, skip |-> 0]
                      ELSE [valid |-> 0, skip |-> 3]
        ELSE [valid |-> 0, skip |-> 1]

\* The code point a valid sequence of n bytes encodes.
CodePoint(b, n) ==
    IF n = 1 THEN b[1]
    ELSE IF n = 2 THEN (b[1] - 192) * 64 + (b[2] - 128)
    ELSE IF n = 3 THEN (b[1] - 224) * 4096 + (b[2] - 128) * 64 + (b[3] - 128)
    ELSE (b[1] - 240) * 262144 + (b[2] - 128) * 4096 + (b[3] - 128) * 64 + (b[4] - 128)

\* OsStr::to_string_lossy: each maximal invalid run of bytes becomes U+FFFD.
RECURSIVE to_string_lossy(_)
to_string_lossy(b) ==
    IF b = <<>> THEN <<>>
    ELSE LET h == Utf8Head(b)
         IN  IF h.valid > 0
             THEN <<CodePoint(b, h.valid)>> \o to_string_lossy(Drop(b, h.valid))
             ELSE <<Replacement>> \o to_string_lossy(Drop(b, h.skip))

(***************************************************************************)
(* percent_decode (main.rs 929-943).                                       *)
(***************************************************************************)
\* char::to_digit(16) succeeds.
IsHexDigit(c) == c \in 48..57 \/ c \in 65..70 \/ c \in 97..102

\* char::to_digit(16) of a hexadecimal digit.
to_digit(c) == IF c \in 48..57 THEN c - 48 ELSE IF c \in 65..70 THEN c - 55 ELSE c - 87

RECURSIVE DigitsValue(_, _)
DigitsValue(digits, acc) ==
    IF digits = <<>> THEN acc
    ELSE DigitsValue(Tail(digits), acc * 16 + to_digit(Head(digits)))

\* u8::from_str_radix(h, 16): empty input, a lone sign, a character that is no
\* hexadecimal digit, or a value above 255 is an Err; one leading '+' is accepted.
from_str_radix(h) ==
    IF h = <<>> THEN [ok |-> FALSE, val |-> 0]
    ELSE IF Head(h) \in {Plus, Minus} /\ Tail(h) = <<>> THEN [ok |-> FALSE, val |-> 0]
    ELSE LET digits == IF Head(h) = Plus THEN Tail(h) ELSE h
         IN  IF \E i \in 1..Len(digits) : ~IsHexDigit(digits[i])
             THEN [ok |-> FALSE, val |-> 0]
             ELSE IF DigitsValue(digits, 0) > 255 THEN [ok |-> FALSE, val |-> 0]
             ELSE [ok |-> TRUE, val |-> DigitsValue(digits, 0)]

\* `byte as char`: the code point whose number is the byte.
ByteAsChar(byte) == byte

\* One escape: the result of the two characters taken after a '%'.
DecodeEscape(h) ==
    LET r == from_str_radix(h)
    IN  IF r.ok THEN <<ByteAsChar(r.val)>> ELSE <<>>

RECURSIVE percent_decode(_)
percent_decode(s) ==
    IF s = <<>> THEN <<>>
    ELSE IF Head(s) = Pct
         THEN DecodeEscape(Take(Tail(s), 2)) \o percent_decode(Drop(Tail(s), 2))
         ELSE <<Head(s)>> \o percent_decode(Tail(s))

(***************************************************************************)
(* guess_mime (main.rs 945-959).                                           *)
(***************************************************************************)
OctetStream == "application/octet-stream"

ToLower(c) == IF c \in 65..90 THEN c + 32 ELSE c

\* guess_mime matching the extension whatever its case.
guess_mime_any_case(ext) ==
    LET e == [i \in DOMAIN ext |-> ToLower(ext[i])]
    IN  CASE e \in {<<104, 116, 109, 108>>, <<104, 116, 109>>} -> "text/html"
          [] e = <<99, 115, 115>>                              -> "text/css"
          [] e = <<106, 115>>                     -> "application/javascript"
          [] e = <<106, 115, 111, 110>>                 -> "application/json"
          [] e = <<112, 110, 103>>                             -> "image/png"
          [] e \in {<<106, 112, 103>>, <<106, 112, 101, 103>>} -> "image/jpeg"
          [] e = <<103, 105, 102>>                             -> "image/gif"
          [] e = <<115, 118, 103>>                         -> "image/svg+xml"
          [] e = <<112, 100, 102>>                       -> "application/pdf"
          [] e \in {<<116, 120, 116>>, <<109, 100>>}           -> "text/plain"
          [] OTHER                                             -> OctetStream

guess_mime(ext) ==
    CASE ext \in {<<104, 116, 109, 108>>, <<104, 116, 109>>} -> "text/html"   \* html htm
      [] ext = <<99, 115, 115>>                              -> "text/css"    \* css
      [] ext = <<106, 115>>                     -> "application/javascript"   \* js
      [] ext = <<106, 115, 111, 110>>                 -> "application/json"   \* json
      [] ext = <<112, 110, 103>>                             -> "image/png"   \* png
      [] ext \in {<<106, 112, 103>>, <<106, 112, 101, 103>>} -> "image/jpeg"  \* jpg jpeg
      [] ext = <<103, 105, 102>>                             -> "image/gif"   \* gif
      [] ext = <<115, 118, 103>>                         -> "image/svg+xml"   \* svg
      [] ext = <<112, 100, 102>>                       -> "application/pdf"   \* pdf
      [] ext \in {<<116, 120, 116>>, <<109, 100>>}           -> "text/plain"  \* txt md
      [] OTHER                                               -> OctetStream

(***************************************************************************)
(* Text: what format! builds.                                              *)
(***************************************************************************)
Lit(s) == [lit |-> s, chars |-> <<>>, raw |-> <<>>]     \* a literal of the source

Chars(c) == [lit |-> "", chars |-> c, raw |-> <<>>]     \* a String put in by {}

Raw(b) == [lit |-> "", chars |-> <<>>, raw |-> b]       \* bytes written as they are

\* The number of bytes of one piece on the wire.
PieceBytes(p) == Len(p.lit) + Len(as_bytes(p.chars)) + Len(p.raw)

\* The number of bytes of a text on the wire.
RECURSIVE WireLen(_)
WireLen(t) == IF t = <<>> THEN 0 ELSE PieceBytes(Head(t)) + WireLen(Tail(t))

\* String::len of a String built from pieces (body.len(), main.rs 904).
RECURSIVE body_len(_)
body_len(t) ==
    IF t = <<>> THEN 0
    ELSE Len(Head(t).lit) + str_len(Head(t).chars) + Len(Head(t).raw) + body_len(Tail(t))

(***************************************************************************)
(* The request line (main.rs 872-878).                                     *)
(***************************************************************************)
\* BufRead::read_line: the input up to and with the first '\n', or all of it at
\* end of input; input that is not valid UTF-8 is an Err and leaves first_line
\* empty (the .ok() at 874 drops the Err).
RECURSIVE UpToNewline(_)
UpToNewline(inp) ==
    IF inp = <<>> THEN <<>>
    ELSE IF Head(inp) = LF THEN <<LF>>
    ELSE <<Head(inp)>> \o UpToNewline(Tail(inp))

\* A line read lossily: the bytes that are not valid UTF-8 are left out.
read_line_lossy(inp) == SelectSeq(UpToNewline(inp), LAMBDA b : b # BadByte)

read_line(inp) ==
    LET raw == UpToNewline(inp)
    IN  IF BadByte \in Range(raw) THEN <<>> ELSE raw

\* char::is_whitespace: the Unicode White_Space property.
IsWhitespace(c) ==
    \/ c \in 9..13
    \/ c \in {32, 133, 160, 5760, 8232, 8233, 8239, 8287, 12288}
    \/ c \in 8192..8202

\* str::split_whitespace: the maximal runs of characters that are not whitespace.
RECURSIVE SplitFrom(_, _)
SplitFrom(s, cur) ==
    IF s = <<>> THEN (IF cur = <<>> THEN <<>> ELSE <<cur>>)
    ELSE IF IsWhitespace(Head(s))
         THEN (IF cur = <<>> THEN <<>> ELSE <<cur>>) \o SplitFrom(Tail(s), <<>>)
         ELSE SplitFrom(Tail(s), Append(cur, Head(s)))

split_whitespace(s) == SplitFrom(s, <<>>)

\* Which token is the path: .nth(1), counted from 0.
PathTokenIndex == 2

\* PathStr taking the last token of the line.
PathStrLast(first_line) ==
    LET tokens == split_whitespace(first_line)
    IN  IF Len(tokens) >= PathTokenIndex THEN tokens[Len(tokens)] ELSE <<Slash>>

\* first_line.split_whitespace().nth(1).unwrap_or("/")
PathStr(first_line) ==
    LET tokens == split_whitespace(first_line)
    IN  IF Len(tokens) >= PathTokenIndex THEN tokens[PathTokenIndex] ELSE <<Slash>>

(***************************************************************************)
(* Paths (main.rs 879-885).                                                *)
(***************************************************************************)
\* One leading '/' taken off, as str::strip_prefix('/') does.
strip_one_slash(s) == IF s # <<>> /\ Head(s) = Slash THEN Tail(s) ELSE s

\* str::trim_start_matches('/')
RECURSIVE trim_start_matches(_)
trim_start_matches(s) ==
    IF s # <<>> /\ Head(s) = Slash THEN trim_start_matches(Tail(s)) ELSE s

\* str::trim_end_matches('/')
RECURSIVE trim_end_matches(_)
trim_end_matches(s) ==
    IF s # <<>> /\ s[Len(s)] = Slash THEN trim_end_matches(SubSeq(s, 1, Len(s) - 1)) ELSE s

\* Path::join: an absolute path replaces the base; before a relative one a
\* separator is put in unless one ends the base.
PathJoin(base, rel) ==
    IF rel # <<>> /\ rel[1] = Slash THEN rel
    ELSE IF base # <<>> /\ base[Len(base)] = Slash THEN base \o rel
    ELSE base \o <<Slash>> \o rel

\* The components of a path between its separators (empty ones included).
RECURSIVE SplitSlash(_, _)
SplitSlash(p, cur) ==
    IF p = <<>> THEN <<cur>>
    ELSE IF Head(p) = Slash THEN <<cur>> \o SplitSlash(Tail(p), <<>>)
    ELSE SplitSlash(Tail(p), Append(cur, Head(p)))

DotName == <<Dot>>

DotDotName == <<Dot, Dot>>

\* Path::file_name: the last component, none when the path ends in "..";
\* empty components and "." are not components.
file_name(p) ==
    LET comps == SelectSeq(SplitSlash(p, <<>>), LAMBDA c : c # <<>> /\ c # DotName)
    IN  IF comps = <<>> \/ comps[Len(comps)] = DotDotName
        THEN [some |-> FALSE, name |-> <<>>]
        ELSE [some |-> TRUE, name |-> comps[Len(comps)]]

\* The index of the last '.' of a name, 0 when it has none.
LastDot(name) ==
    LET dots == {i \in 1..Len(name) : name[i] = Dot}
    IN  IF dots = {} THEN 0 ELSE CHOOSE i \in dots : \A j \in dots : j <= i

\* extension taking the leading '.' of a dot file for the separator.
extension_of_dotfile(p) ==
    LET f == file_name(p)
        d == LastDot(f.name)
    IN  IF ~f.some \/ d = 0 THEN <<>> ELSE Drop(f.name, d)

\* Path::extension().unwrap_or_default(): what follows the last '.' of the file
\* name; empty when there is no file name, no '.', or only a leading '.'.
extension(p) ==
    LET f == file_name(p)
        d == LastDot(f.name)
    IN  IF ~f.some \/ d <= 1 THEN <<>> ELSE Drop(f.name, d)

(***************************************************************************)
(* The filesystem the server reads.  A node is named by the names on the   *)
(* way from "/"; a name is a sequence of bytes.  No symbolic links, and    *)
(* every directory may be searched.                                        *)
(***************************************************************************)
FsTop == <<>>                                             \* "/"
NodeR == <<(<<114>>)>>                                    \* "/r", the served root
NodeS == <<(<<115>>)>>                                    \* "/s", a file beside the root
NodeB == <<(<<114>>), (<<66>>)>>                          \* "/r/B"
NodeA == <<(<<114>>), (<<97>>)>>                          \* "/r/a"
NodeJs == <<(<<114>>), (<<97>>), (<<99, 46, 106, 115>>)>> \* "/r/a/c.js"
NodeMd == <<(<<114>>), (<<97>>), (<<46, 109, 100>>)>>     \* "/r/a/.md"
NodeFF == <<(<<114>>), (<<97>>), (<<255>>)>>              \* "/r/a/<FF>", a name that is not UTF-8

Nodes == {FsTop, NodeR, NodeS, NodeB, NodeA, NodeJs, NodeMd, NodeFF}

\* directory.canonicalize() (main.rs 859): the root as a String, "/r".
dir == <<Slash, 114>>

Absent == [kind |-> "absent", data |-> <<>>, readable |-> FALSE]

DirNode(r) == [kind |-> "dir", data |-> <<>>, readable |-> r]

FileNode(d, r) == [kind |-> "file", data |-> d, readable |-> r]

Fifo == [kind |-> "fifo", data |-> <<>>, readable |-> TRUE]

Parent(n) == IF n = <<>> THEN <<>> ELSE SubSeq(n, 1, Len(n) - 1)

\* The nodes a directory holds.
Children(f, n) == {c \in Nodes : c # <<>> /\ Parent(c) = n /\ f[c].kind # "absent"}

\* The kernel's walk along the components of a path.
RECURSIVE Walk(_, _, _)
Walk(f, cur, comps) ==
    IF comps = <<>> THEN [ok |-> TRUE, node |-> cur]
    ELSE IF f[cur].kind # "dir" THEN [ok |-> FALSE, node |-> cur]
    ELSE LET c == Head(comps)
         IN  IF c = <<>> \/ c = DotName THEN Walk(f, cur, Tail(comps))
             ELSE IF c = DotDotName THEN Walk(f, Parent(cur), Tail(comps))
             ELSE IF Append(cur, c) \in Nodes /\ f[Append(cur, c)].kind # "absent"
                  THEN Walk(f, Append(cur, c), Tail(comps))
                  ELSE [ok |-> FALSE, node |-> cur]

\* fs::metadata of an absolute path given by its bytes; a NUL byte is an Err.
metadata(f, p) ==
    IF 0 \in Range(p) THEN [ok |-> FALSE, node |-> FsTop]
    ELSE Walk(f, FsTop, SplitSlash(p, <<>>))

\* Path::is_dir, Path::is_file of a path given by its bytes.
path_is_dir(f, p) == LET m == metadata(f, p) IN m.ok /\ f[m.node].kind = "dir"

path_is_file(f, p) == LET m == metadata(f, p) IN m.ok /\ f[m.node].kind = "file"

\* full_path.is_dir(), full_path.is_file(): of a path built from Strings.
is_dir(f, path) == path_is_dir(f, as_bytes(path))

is_file(f, path) == path_is_file(f, as_bytes(path))

\* fs::read: the content of a readable file.
read(f, path) ==
    LET m == metadata(f, as_bytes(path))
    IN  IF m.ok /\ f[m.node].kind = "file" /\ f[m.node].readable
        THEN [ok |-> TRUE, data |-> f[m.node].data]
        ELSE [ok |-> FALSE, data |-> <<>>]

\* read_dir that gives the names of a directory it may not read.
read_dir_unchecked(f, path) ==
    LET m == metadata(f, as_bytes(path))
    IN  IF m.ok /\ f[m.node].kind = "dir"
        THEN [ok |-> TRUE, names |-> {c[Len(c)] : c \in Children(f, m.node)}]
        ELSE [ok |-> FALSE, names |-> {}]

\* fs::read_dir: the names a readable directory holds.
read_dir(f, path) ==
    LET m == metadata(f, as_bytes(path))
    IN  IF m.ok /\ f[m.node].kind = "dir" /\ f[m.node].readable
        THEN [ok |-> TRUE, names |-> {c[Len(c)] : c \in Children(f, m.node)}]
        ELSE [ok |-> FALSE, names |-> {}]

\* Every order in which the names of S can come.
RECURSIVE Orders(_)
Orders(S) ==
    IF S = {} THEN {<<>>}
    ELSE UNION {{<<x>> \o rest : rest \in Orders(S \ {x})} : x \in S}

\* What iterating read_dir can give after filter_map(|e| e.ok()) (main.rs
\* 892-893): nothing when read_dir fails; otherwise the entries that did not
\* fail, in the order the system gives them.
Entries(f, path) ==
    LET r == read_dir(f, path)
    IN  IF ~r.ok THEN {<<>>}
        ELSE UNION {Orders(S) : S \in SUBSET r.names}

(***************************************************************************)
(* The directory listing (main.rs 887-904).                                *)
(***************************************************************************)
\* The order sort_by_key sorts by: that of the file names.
KeyLess(a, b) == LexLess(a, b)

RECURSIVE InsertSorted(_, _)
InsertSorted(sorted, n) ==
    IF sorted = <<>> THEN <<n>>
    ELSE IF KeyLess(n, Head(sorted)) THEN <<n>> \o sorted
    ELSE <<Head(sorted)>> \o InsertSorted(Tail(sorted), n)

\* The items as they came, not sorted.
unsorted(items) == items

\* items.sort_by_key(|e| e.file_name()): a stable sort.
RECURSIVE sort_by_key(_)
sort_by_key(items) ==
    IF items = <<>> THEN <<>>
    ELSE InsertSorted(sort_by_key(SubSeq(items, 1, Len(items) - 1)), items[Len(items)])

\* Href without the trim.
HrefUntrimmed(path_str, n) == path_str \o <<Slash>> \o n

\* format!("{}/{}", path_str.trim_end_matches('/'), n)
Href(path_str, n) == trim_end_matches(path_str) \o <<Slash>> \o n

\* One <li>: the icon, the link and the name of a child.
ListItem(f, path_str, full_path, name) ==
    LET n == to_string_lossy(name)
        icon == IF path_is_dir(f, PathJoin(as_bytes(full_path), name)) THEN Folder ELSE Page
    IN  << Lit("<li>"), Chars(<<icon>>), Lit(" <a href='"), Chars(Href(path_str, n)),
           Lit("'>"), Chars(n), Lit("</a></li>") >>

ListingHead(full_path) ==
    << Lit("<html><head><meta charset='utf-8'></head><body><h2>"), Chars(<<Folder>>),
       Lit(" "), Chars(to_string_lossy(as_bytes(full_path))), Lit("</h2><ul>") >>

ListingTail == << Lit("</ul></body></html>") >>

\* The body of the listing of full_path, whose entries came as `entries`.
ListingBody(f, path_str, full_path, entries) ==
    LET items == sort_by_key(entries)
    IN  ListingHead(full_path)
        \o Flatten([i \in 1..Len(items) |-> ListItem(f, path_str, full_path, items[i])])
        \o ListingTail

(***************************************************************************)
(* Responses (main.rs 903-904, 911-916, 919, 922).                         *)
(***************************************************************************)
ContentType(v) == [name |-> "Content-Type", text |-> v, num |-> 0]

ContentLength(n) == [name |-> "Content-Length", text |-> "", num |-> n]

NoResponse == [code |-> 0, reason |-> "", headers |-> <<>>, body |-> <<>>]

\* format!("HTTP/1.1 200 OK\r\nContent-Type: text/html\r\nContent-Length: {}\r\n\r\n{}",
\*         body.len(), body)
ListingResponse(body) ==
    [code |-> 200, reason |-> "OK",
     headers |-> <<ContentType("text/html"), ContentLength(body_len(body))>>,
     body |-> body]

\* The header written at 911-915 and the data written at 916.
FileResponse(full_path, data) ==
    [code |-> 200, reason |-> "OK",
     headers |-> <<ContentType(guess_mime(extension(full_path))), ContentLength(Len(data))>>,
     body |-> <<Raw(data)>>]

\* "HTTP/1.1 500 Internal Server Error\r\n\r\n"
ErrorResponse ==
    [code |-> 500, reason |-> "Internal Server Error", headers |-> <<>>, body |-> <<>>]

\* "HTTP/1.1 404 Not Found\r\nContent-Length: 9\r\n\r\n404 oops"
NotFoundResponse ==
    [code |-> 404, reason |-> "Not Found",
     headers |-> <<ContentLength(9)>>,
     body |-> <<Lit("404 oops")>>]

(***************************************************************************)
(* One request (main.rs 872-925): everything the handler computes from the *)
(* connection's input, the filesystem and the entries read_dir gave.       *)
(***************************************************************************)
\* Classify with exists() in the place of is_file().
ClassifyExists(f, full_path) ==
    IF is_dir(f, full_path) THEN "Directory"
    ELSE IF metadata(f, as_bytes(full_path)).ok THEN "File"
    ELSE "Missing"

Classify(f, full_path) ==
    IF is_dir(f, full_path) THEN "Directory"
    ELSE IF is_file(f, full_path) THEN "File"
    ELSE "Missing"

\* FullPath of a resolver that keeps to the root: a path with a '..' segment
\* is taken for the root.
FullPathConfined(decoded) ==
    LET rel_path == trim_start_matches(decoded)
    IN  IF rel_path = <<>> \/ DotDotName \in Range(SplitSlash(rel_path, <<>>)) THEN dir
        ELSE PathJoin(dir, rel_path)

FullPath(decoded) ==
    LET rel_path == trim_start_matches(decoded)
    IN  IF rel_path = <<>> THEN dir ELSE PathJoin(dir, rel_path)

\* A log line printed for every request.
LogLinesForAll(kind, read_ok, path_str) == <<path_str>>

\* println!("  {} {}", "GET".green(), path_str) in the Ok arm of fs::read (908)
LogLines(kind, read_ok, path_str) ==
    IF kind = "File" /\ read_ok THEN <<path_str>> ELSE <<>>

\* What follows from path_str (main.rs 879-925); first_line is not used again.
Serve(f, path_str, entries) ==
    LET decoded == percent_decode(path_str)
        full_path == FullPath(decoded)
        kind == Classify(f, full_path)
        got == read(f, full_path)
        response ==
            IF kind = "Directory"
            THEN ListingResponse(ListingBody(f, path_str, full_path, entries))
            ELSE IF kind = "File"
            THEN (IF got.ok THEN FileResponse(full_path, got.data) ELSE ErrorResponse)
            ELSE NotFoundResponse
    IN  [response |-> response,
         \* the file's header and data go out in two write_all calls (915, 916)
         nwrites |-> IF kind = "File" /\ got.ok THEN 2 ELSE 1,
         log |-> LogLines(kind, got.ok, path_str),
         obs |-> [path_str |-> path_str, decoded |-> decoded, full_path |-> full_path,
                  kind |-> kind, entries |-> entries, read_ok |-> got.ok]]

\* reader.read_line(&mut first_line) appends what it read to the buffer (874).
read_line_into(buf, inp) == buf \o read_line(inp)

RespondWith(f, buf, inp, entries) == Serve(f, PathStr(read_line_into(buf, inp)), entries)

\* A request handled with the buffer String::new() gives (873).
Respond(f, inp, entries) == RespondWith(f, <<>>, inp, entries)

(***************************************************************************)
(* What clients send.                                                      *)
(***************************************************************************)
Get == <<71, 69, 84>>                                              \* GET

Post == <<80, 79, 83, 84>>                                         \* POST

Http11 == <<72, 84, 84, 80, 47, 49, 46, 49>>                       \* HTTP/1.1

\* The method and the version (none: <<>>) a request line is sent with.
Framings == { <<Get, Http11>>, <<Post, Http11>>, <<Get, <<>> >> }

PathTokens ==
    { <<47>>,                                  \* /
      <<47, 66>>,                              \* /B
      <<47, 97>>,                              \* /a
      <<47, 97, 47>>,                          \* /a/
      <<47, 37, 54, 49, 47>>,                  \* /%61/
      <<47, 97, 47, 46, 109, 100>>,            \* /a/.md
      <<47, 97, 47, 99, 46, 106, 115>>,        \* /a/c.js
      <<47, 97, 47, 99, 46, 106, 115, 47>>,    \* /a/c.js/
      <<47, 122>>,                             \* /z
      <<47, 47, 66>>,                          \* //B
      <<47, 46, 46, 47, 115>>,                 \* /../s
      <<47, 46, 46>>,                          \* /..
      <<47, 37, 50, 101, 37, 50, 101, 47, 115>>,   \* /%2e%2e/s
      <<47, 97, 47, 37, 102, 102>>,            \* /a/%ff
      <<47, 66, 37>>,                          \* /B%
      <<47, 37, 48, 48>>,                      \* /%00
      <<97>>,                                  \* a
      <<47, 97, 47, 46, 46, 47, 66>> }         \* /a/../B

RequestLine(m, t, v) ==
    m \o <<SP>> \o t \o (IF v = <<>> THEN <<>> ELSE <<SP>> \o v) \o <<13, LF>>

OddInputs ==
    { <<>>,                                    \* nothing
      <<LF>>,                                  \* an empty line
      <<71, 69, 84, 13, LF>>,                  \* GET, no path
      <<BadByte, LF>>,                         \* a line that is not UTF-8
      <<71, 69, 84, SP, 47, 66, BadByte, LF>>, \* GET /B, then a byte that is not UTF-8
      <<71, 69, 84, SP, 47, 66>>,              \* GET /B, no newline
      <<SP, 47, 66, SP, 97, LF>>,              \* " /B a": the line starts with a space
      <<71, 69, 84, 9, 47, 66, LF, 47, 97>> }  \* GET<tab>/B, and a second line

Inputs == {RequestLine(fr[1], t, fr[2]) : fr \in Framings, t \in PathTokens}
          \cup OddInputs

\* A client: what it sends, and whether it then closes its side.  Once the line
\* is complete what follows is never read.
Clients ==
    {[input |-> i, eof |-> e] : i \in Inputs, e \in BOOLEAN} \ 
    {[input |-> i, eof |-> FALSE] : i \in {j \in Inputs : LF \in Range(j)}}

(***************************************************************************)
(* The state machine.                                                      *)
(***************************************************************************)
\* No connection: the locals of the loop body do not exist; first_line is the
\* empty String each iteration creates (main.rs 873).
NoConn == [input |-> <<>>, eof |-> FALSE, answered |-> FALSE, first_line |-> <<>>]

NoOut == [response |-> NoResponse, writes |-> <<>>]

NoObs == [path_str |-> <<>>, decoded |-> <<>>, full_path |-> <<>>, kind |-> "",
          entries |-> <<>>, read_ok |-> FALSE]

\* No connection was served yet.
NoHist == [input |-> <<>>]

\* The request followed from one connection to the next: GET /B HTTP/1.1
FollowedInput == RequestLine(Get, <<Slash, 66>>, Http11)

\* What is kept of a connection once it is closed: what was sent, when it is
\* the request followed.
Remember(c) == [input |-> IF c.input = FollowedInput THEN c.input ELSE <<>>]

NoCall == [input |-> <<>>, output |-> <<>>, done |-> FALSE]

NoMime == [input |-> <<>>, output |-> "", done |-> FALSE]

\* The contents a file the environment writes can have: k bytes, k <= MaxData.
FileData == {[i \in 1..k |-> 200 + i] : k \in 0..MaxData}

\* What the environment may make of each node.
MayBeFile == {NodeB, NodeJs, NodeMd}

MayBeFifo == {NodeB}

MayChmod == {NodeB, NodeA}

\* The contents each file can have: any for B, one byte (the first of its name) for the others.
DataFor(n) == IF n = NodeB THEN FileData ELSE {<<n[Len(n)][1]>>}

FsInit ==
    [n \in Nodes |->
        IF n \in {FsTop, NodeR, NodeA} THEN DirNode(TRUE)
        ELSE IF n = NodeS THEN FileNode(<<115>>, TRUE)
        ELSE IF n = NodeB THEN FileNode(<<201>>, TRUE)
        ELSE IF n = NodeFF THEN FileNode(<<255>>, TRUE)
        ELSE Absent]

ServerIdle ==
    /\ srv = "Listening"
    /\ conn = NoConn
    /\ out = NoOut
    /\ log = <<>>
    /\ obs = NoObs
    /\ hist = NoHist

Init ==
    /\ fs = FsInit
    /\ ServerIdle
    /\ dec = NoCall
    /\ mime = NoMime

\* The environment changes the filesystem, at any time but while a response is
\* being composed and written.
EnvQuiet == ~(srv = "Serving" /\ conn.answered)

EnvCanCreate(n) == EnvQuiet /\ fs[n].kind = "absent" /\ fs[Parent(n)].kind = "dir"

EnvWrite(n, d) ==
    /\ n \in MayBeFile /\ d \in DataFor(n)
    /\ EnvCanCreate(n) \/ (EnvQuiet /\ fs[n].kind = "file" /\ fs[n].data # d)
    /\ fs' = [fs EXCEPT ![n] = FileNode(d, IF fs[n].kind = "file" THEN fs[n].readable ELSE TRUE)]
    /\ UNCHANGED <<srv, conn, out, log, obs, dec, mime, hist>>

EnvMkfifo(n) ==
    /\ n \in MayBeFifo
    /\ EnvCanCreate(n)
    /\ fs' = [fs EXCEPT ![n] = Fifo]
    /\ UNCHANGED <<srv, conn, out, log, obs, dec, mime, hist>>

EnvRemove(n) ==
    /\ n \in MayBeFile
    /\ EnvQuiet /\ fs[n].kind # "absent"
    /\ fs' = [fs EXCEPT ![n] = Absent]
    /\ UNCHANGED <<srv, conn, out, log, obs, dec, mime, hist>>

EnvChmod(n) ==
    /\ n \in MayChmod
    /\ EnvQuiet /\ fs[n].kind \in {"file", "dir"}
    /\ fs' = [fs EXCEPT ![n].readable = ~fs[n].readable]
    /\ UNCHANGED <<srv, conn, out, log, obs, dec, mime, hist>>

\* listener.incoming() gives the next connection (main.rs 871).
Accept(c) ==
    /\ srv = "Listening"
    /\ srv' = "Serving"
    /\ conn' = [conn EXCEPT !.input = c.input, !.eof = c.eof, !.answered = FALSE]
    /\ UNCHANGED <<fs, out, log, obs, dec, mime, hist>>

\* A read with no timeout: read_line returns only for a read that never blocks.
LineReadyOrTimeout(c) == TRUE

\* read_line blocks until the line is complete or the client has closed its side
\* (main.rs 874; the stream has no read timeout).
LineReady(c) == LF \in Range(c.input) \/ c.eof

\* A write result taken with unwrap(): a failed write panics.
WriteUnwrapped(written) == IF written THEN "ignored" ELSE "panic"

\* stream.write_all(..).ok(): the result of a write is dropped (main.rs 915, 916, 925).
WriteOutcome(written) == "ignored"

\* The body of the loop (main.rs 872-925): read_line returns once the line is
\* complete or the client has closed; the response is composed and written;
\* each write_all succeeds or fails, and its result is dropped by .ok().
Handle ==
    /\ srv = "Serving" /\ ~conn.answered
    /\ LineReady(conn)
    /\ \E first_line \in {read_line_into(conn.first_line, conn.input)} :
         /\ \E entries \in Entries(fs, FullPath(percent_decode(PathStr(first_line)))) :
              \E r \in {Serve(fs, PathStr(first_line), entries)} :
                  /\ \E writes \in [1..r.nwrites -> BOOLEAN] :
                         /\ out' = [response |-> r.response, writes |-> writes]
                         /\ srv' = IF \E i \in DOMAIN writes : WriteOutcome(writes[i]) = "panic"
                                   THEN "Stopped" ELSE "Serving"
                  /\ log' = r.log
                  /\ obs' = r.obs
         /\ conn' = [conn EXCEPT !.answered = TRUE, !.first_line = first_line]
    /\ UNCHANGED <<fs, dec, mime, hist>>

\* Close leaving the loop after any response but 200.
CloseOrBreak ==
    /\ srv = "Serving" /\ conn.answered
    /\ srv' = IF out.response.code = 200 THEN "Listening" ELSE "Stopped"
    /\ conn' = NoConn
    /\ out' = NoOut
    /\ log' = <<>>
    /\ obs' = NoObs
    /\ hist' = Remember(conn)
    /\ UNCHANGED <<fs, dec, mime>>

\* Close with first_line declared outside the loop: the buffer outlives the
\* iteration.
CloseKeepingLine ==
    /\ srv = "Serving" /\ conn.answered
    /\ srv' = "Listening"
    /\ conn' = [NoConn EXCEPT !.first_line = conn.first_line]
    /\ out' = NoOut
    /\ log' = <<>>
    /\ obs' = NoObs
    /\ hist' = Remember(conn)
    /\ UNCHANGED <<fs, dec, mime>>

\* The stream, the reader and first_line are dropped at the end of the loop body
\* (main.rs 917, 926) and the loop goes back to incoming().
Close ==
    /\ srv = "Serving" /\ conn.answered
    /\ srv' = "Listening"
    /\ conn' = NoConn
    /\ out' = NoOut
    /\ log' = <<>>
    /\ obs' = NoObs
    /\ hist' = Remember(conn)
    /\ UNCHANGED <<fs, dec, mime>>

Next ==
    \/ \E c \in Clients : Accept(c)
    \/ Handle
    \/ Close
    \/ \E n \in MayBeFile : \E d \in DataFor(n) : EnvWrite(n, d)
    \/ \E n \in MayBeFifo : EnvMkfifo(n)
    \/ \E n \in MayBeFile : EnvRemove(n)
    \/ \E n \in MayChmod : EnvChmod(n)

Spec == Init /\ [][Next]_vars

\* The handler runs on: once the response is written the iteration ends and the
\* stream is dropped.  Nothing says that a client ever connects, or that one
\* ever completes its line.
SpecLive == Spec /\ WF_vars(Close)

(***************************************************************************)
(* percent_decode and guess_mime on their own.                             *)
(***************************************************************************)
HexDigits == (48..57) \cup (65..70) \cup (97..102)

\* The characters tried after a '%': the hexadecimal digits, 'g', '+', '-', e-acute.
EscapeChars == HexDigits \cup {103, Plus, Minus, 233}

\* The characters of the free-form inputs: % 4 F g + /
DecodeAlphabet == {Pct, 52, 70, 103, Plus, Slash}

DecodeInputs ==
    {pre \o <<Pct>> \o t \o post :
        pre \in {<<>>, <<97>>}, t \in SeqsUpTo(EscapeChars, 2), post \in {<<>>, <<47, 98>>}}
    \cup SeqsUpTo(DecodeAlphabet, MaxDecodeLen)

InitDecode ==
    /\ fs = FsInit
    /\ ServerIdle
    /\ dec \in {[input |-> i, output |-> <<>>, done |-> FALSE] : i \in DecodeInputs}
    /\ mime = NoMime

DecodeCall ==
    /\ ~dec.done
    /\ dec' = [dec EXCEPT !.output = percent_decode(dec.input), !.done = TRUE]
    /\ UNCHANGED <<fs, srv, conn, out, log, obs, mime, hist>>

NextDecode == DecodeCall

SpecDecode == InitDecode /\ [][NextDecode]_vars

KnownExts ==
    { <<104, 116, 109, 108>>, <<104, 116, 109>>, <<99, 115, 115>>, <<106, 115>>,
      <<106, 115, 111, 110>>, <<112, 110, 103>>, <<106, 112, 103>>, <<106, 112, 101, 103>>,
      <<103, 105, 102>>, <<115, 118, 103>>, <<112, 100, 102>>, <<116, 120, 116>>,
      <<109, 100>> }

ToUpper(c) == IF c \in 97..122 THEN c - 32 ELSE c

\* The characters of the free-form inputs: h t m l j s d H M x
MimeAlphabet == {104, 116, 109, 108, 106, 115, 100, 72, 77, 120}

MimeInputs ==
    KnownExts
    \cup {[i \in 1..Len(e) |-> ToUpper(e[i])] : e \in KnownExts}
    \cup {[i \in 1..Len(e) |-> IF i = 1 THEN ToUpper(e[i]) ELSE e[i]] : e \in KnownExts}
    \cup {Append(e, c) : e \in KnownExts, c \in MimeAlphabet}
    \cup {<<Dot>> \o e : e \in KnownExts}
    \cup SeqsUpTo(MimeAlphabet, MaxExtLen)

InitMime ==
    /\ fs = FsInit
    /\ ServerIdle
    /\ dec = NoCall
    /\ mime \in {[input |-> i, output |-> "", done |-> FALSE] : i \in MimeInputs}

MimeCall ==
    /\ ~mime.done
    /\ mime' = [mime EXCEPT !.output = guess_mime(mime.input), !.done = TRUE]
    /\ UNCHANGED <<fs, srv, conn, out, log, obs, dec, hist>>

NextMime == MimeCall

SpecMime == InitMime /\ [][NextMime]_vars

(***************************************************************************)
(* Properties.  A connection is "answered" between the handler's writes    *)
(* and the drop of the stream; the filesystem is then the one the handler  *)
(* saw.                                                                    *)
(***************************************************************************)
Answered == srv = "Serving" /\ conn.answered

Delivered == \A i \in DOMAIN out.writes : out.writes[i]

HeaderSet(resp, name) == {resp.headers[i] : i \in {j \in DOMAIN resp.headers : resp.headers[j].name = name}}

\* The node the resolved path names in the filesystem.
Target == metadata(fs, as_bytes(obs.full_path))

TargetIs(kind) == Target.ok /\ fs[Target.node].kind = kind

\* The last name of a node.
NameOf(n) == n[Len(n)]

\* The raw names of the immediate children of the target.
ChildNames == {NameOf(c) : c \in Children(fs, Target.node)}

\* Ordinal order of names, stated on their first difference.
Before(a, b) ==
    \E k \in 1..Len(b) :
        /\ \A i \in 1..(k - 1) : i <= Len(a) /\ a[i] = b[i]
        /\ Len(a) = k - 1 \/ (Len(a) >= k /\ a[k] < b[k])

\* The names of S in ascending ordinal order: the k-th has k - 1 names before it.
Ascending(S) ==
    [k \in 1..Cardinality(S) |->
        CHOOSE x \in S : Cardinality({y \in S : Before(y, x)}) = k - 1]

\* The list items of a listing, in the order they appear: each <li> with its
\* icon, link target and text.
ItemStarts(body) ==
    SelectSeq([i \in DOMAIN body |-> i], LAMBDA i : body[i] = Lit("<li>"))

ItemsAt(body, starts) ==
    [k \in DOMAIN starts |->
        [icon |-> body[starts[k] + 1].chars,
         href |-> body[starts[k] + 3].chars,
         text |-> body[starts[k] + 5].chars]]

ListedItems(body) == ItemsAt(body, ItemStarts(body))

\* C1 (as claimed): a request whose target is Missing is answered with the status
\* line HTTP/1.1 404 Not Found, the header Content-Length: 9 and a body that is
\* the 9-byte sequence "404 oops".
C1_NotFoundNineBytes ==
    (Answered /\ Delivered /\ obs.kind = "Missing") =>
        /\ out.response.code = 404 /\ out.response.reason = "Not Found"
        /\ HeaderSet(out.response, "Content-Length") = {ContentLength(9)}
        /\ out.response.body = <<Lit("404 oops")>>
        /\ WireLen(out.response.body) = 9

\* C2 (as claimed): in every response that carries a Content-Length header, the
\* header's value is the number of body bytes written after the blank line.
C2_ContentLengthIsBodyLength ==
    (Answered /\ Delivered) =>
        \A h \in HeaderSet(out.response, "Content-Length") :
            h.num = WireLen(out.response.body)

\* C3: the status follows from the kind of the resolved target alone: Directory
\* gives 200 OK with Content-Type: text/html; File gives 200 OK when the read
\* succeeds and 500 Internal Server Error with an empty body when it fails;
\* Missing gives 404 Not Found; no other status is written.  The kind is that of
\* the target in the filesystem.
C3_StatusFollowsKind ==
    Answered =>
        /\ out.response.code \in {200, 404, 500}
        /\ obs.kind \in {"Directory", "File", "Missing"}
        /\ obs.kind = "Directory" <=> TargetIs("dir")
        /\ obs.kind = "File" <=> TargetIs("file")
        /\ obs.kind = "Directory" =>
               /\ out.response.code = 200 /\ out.response.reason = "OK"
               /\ HeaderSet(out.response, "Content-Type") = {ContentType("text/html")}
        /\ (obs.kind = "File" /\ fs[Target.node].readable) =>
               out.response.code = 200 /\ out.response.reason = "OK"
        /\ (obs.kind = "File" /\ ~fs[Target.node].readable) =>
               /\ out.response.code = 500
               /\ out.response.reason = "Internal Server Error"
               /\ WireLen(out.response.body) = 0
        /\ obs.kind = "Missing" =>
               out.response.code = 404 /\ out.response.reason = "Not Found"

\* A file that exists and cannot be read was asked for, and 500 went out.
C3_Witness ==
    /\ Answered /\ Delivered
    /\ TargetIs("file") /\ ~fs[Target.node].readable
    /\ out.response.code = 500

\* The content types of the known extensions, as the Mime Table states them.
MimeTable ==
    { << <<104, 116, 109, 108>>, "text/html" >>,            \* html
      << <<104, 116, 109>>, "text/html" >>,                 \* htm
      << <<99, 115, 115>>, "text/css" >>,                   \* css
      << <<106, 115>>, "application/javascript" >>,         \* js
      << <<106, 115, 111, 110>>, "application/json" >>,     \* json
      << <<112, 110, 103>>, "image/png" >>,                 \* png
      << <<106, 112, 103>>, "image/jpeg" >>,                \* jpg
      << <<106, 112, 101, 103>>, "image/jpeg" >>,           \* jpeg
      << <<103, 105, 102>>, "image/gif" >>,                 \* gif
      << <<115, 118, 103>>, "image/svg+xml" >>,             \* svg
      << <<112, 100, 102>>, "application/pdf" >>,           \* pdf
      << <<116, 120, 116>>, "text/plain" >>,                \* txt
      << <<109, 100>>, "text/plain" >> }                    \* md

TableEntry(ext) ==
    IF \E e \in MimeTable : e[1] = ext
    THEN (CHOOSE e \in MimeTable : e[1] = ext)[2]
    ELSE "application/octet-stream"

\* The extension of a file name: what follows its last '.', when it has one
\* that is not its first character.
ExtensionOfName(name) ==
    IF \E i \in 2..Len(name) : name[i] = Dot
    THEN LET d == CHOOSE i \in 2..Len(name) :
                      name[i] = Dot /\ \A j \in (i + 1)..Len(name) : name[j] # Dot
         IN  SubSeq(name, d + 1, Len(name))
    ELSE <<>>

\* C4: a request whose target is a regular file of N bytes that is read is
\* answered 200 OK with Content-Length: N, the Content-Type the Mime Table gives
\* for the extension of the file, and the file's N bytes as the body.
C4_FileServed ==
    (Answered /\ TargetIs("file") /\ fs[Target.node].readable) =>
        /\ out.response.code = 200 /\ out.response.reason = "OK"
        /\ HeaderSet(out.response, "Content-Length")
               = {ContentLength(Len(fs[Target.node].data))}
        /\ HeaderSet(out.response, "Content-Type")
               = {ContentType(TableEntry(ExtensionOfName(NameOf(Target.node))))}
        /\ Len(out.response.headers) = 2
        /\ out.response.body = <<Raw(fs[Target.node].data)>>
        /\ WireLen(out.response.body) = Len(fs[Target.node].data)

\* /r/a/c.js was asked for and went out whole as application/javascript.
C4_Witness ==
    /\ Answered /\ Delivered
    /\ Target.ok /\ Target.node = NodeJs /\ fs[NodeJs].readable
    /\ out.response.code = 200
    /\ HeaderSet(out.response, "Content-Type") = {ContentType("application/javascript")}
    /\ out.response.body = <<Raw(fs[NodeJs].data)>>

\* The texts of list items, and the texts the names of S give in ascending order.
TextsOfItems(items) == [k \in DOMAIN items |-> items[k].text]

TextsOfNames(names) == [k \in DOMAIN names |-> to_string_lossy(names[k])]

\* C5 (as claimed): the listing of a directory has exactly one list item per
\* immediate child of the directory, in ascending ordinal order of child name.
C5_EveryChildListed ==
    (Answered /\ obs.kind = "Directory") =>
        TextsOfItems(ListedItems(out.response.body)) = TextsOfNames(Ascending(ChildNames))

\* C5 (amended): the listing of a directory has exactly one list item per entry
\* the enumeration of the directory gave (none when read_dir fails, an entry
\* that fails is left out), every one an immediate child, none repeated, in
\* ascending ordinal order of child name; when the enumeration gives every
\* child, that is one item per immediate child.
C5_EveryEntryListed ==
    (Answered /\ obs.kind = "Directory") =>
        \A texts \in {TextsOfItems(ListedItems(out.response.body))} :
        \A children \in {ChildNames} :
            /\ out.response.code = 200
            /\ Range(obs.entries) \subseteq children
            /\ Cardinality(Range(obs.entries)) = Len(obs.entries)
            /\ texts = TextsOfNames(Ascending(Range(obs.entries)))
            /\ Range(obs.entries) = children => texts = TextsOfNames(Ascending(children))
            /\ ~fs[Target.node].readable => texts = <<>>

\* /r/a holds three children, the system gave them in another order than the
\* ascending one, and all three are listed.
C5_Witness ==
    /\ Answered /\ Delivered
    /\ Target.ok /\ Target.node = NodeA
    /\ Cardinality(ChildNames) = 3
    /\ Range(obs.entries) = ChildNames
    /\ obs.entries # Ascending(ChildNames)
    /\ Len(ListedItems(out.response.body)) = 3

\* The request path with the '/' at its end taken off.
WithoutTrailingSlashes(t) ==
    IF \E k \in 0..Len(t) : \A i \in (k + 1)..Len(t) : t[i] = Slash
    THEN LET k == CHOOSE x \in 0..Len(t) :
                      /\ \A i \in (x + 1)..Len(t) : t[i] = Slash
                      /\ x > 0 => t[x] # Slash
         IN  SubSeq(t, 1, k)
    ELSE t

\* A name that is valid UTF-8: to_string_lossy keeps its bytes.
IsUtf8(name) == as_bytes(to_string_lossy(name)) = name

\* C6 (as claimed): the link target of each child is the request path token as
\* received, with the '/' at its end trimmed, then '/' and the raw name of the
\* child, byte for byte.
C6_LinkIsTokenAndRawName ==
    (Answered /\ obs.kind = "Directory") =>
        \A items \in {ListedItems(out.response.body)} :
        \A names \in {Ascending(Range(obs.entries))} :
        \A prefix \in {as_bytes(WithoutTrailingSlashes(obs.path_str))} :
            \A k \in DOMAIN items :
                as_bytes(items[k].href) = prefix \o <<Slash>> \o names[k]

\* C6 (amended): the link target of each child is the request path token as
\* received (not decoded), with the '/' at its end trimmed, then '/' and the
\* name of the child as to_string_lossy gives it: the raw name when it is valid
\* UTF-8, U+FFFD for each run of bytes that is not; nothing is escaped.
C6_LinkIsTokenAndLossyName ==
    (Answered /\ obs.kind = "Directory") =>
        \A items \in {ListedItems(out.response.body)} :
        \A names \in {Ascending(Range(obs.entries))} :
        \A prefix \in {WithoutTrailingSlashes(obs.path_str)} :
            /\ Len(items) = Len(names)
            /\ \A k \in DOMAIN items :
                /\ items[k].href = prefix \o <<Slash>> \o to_string_lossy(names[k])
                /\ IsUtf8(names[k]) =>
                       as_bytes(items[k].href) = as_bytes(prefix) \o <<Slash>> \o names[k]

\* /%61/ was asked for, which decodes to /a/, and c.js is linked as /%61/c.js.
C6_Witness ==
    /\ Answered /\ Delivered
    /\ obs.path_str = <<47, 37, 54, 49, 47>>
    /\ obs.decoded = <<47, 97, 47>>
    /\ \E k \in DOMAIN ListedItems(out.response.body) :
           ListedItems(out.response.body)[k].href
               = <<47, 37, 54, 49, 47, 99, 46, 106, 115>>

\* The value of a hexadecimal digit.
HexValue(c) ==
    CHOOSE v \in 0..15 : \/ v < 10 /\ c = 48 + v
                         \/ v >= 10 /\ c \in {65 + (v - 10), 97 + (v - 10)}

\* A decoded input that holds one '%': where it is.
PctAt(s) == CHOOSE p \in DOMAIN s : s[p] = Pct

OnePct(s) == Cardinality({p \in DOMAIN s : s[p] = Pct}) = 1

\* C7 (as claimed): for an escape %XX with two hexadecimal digits, percent_decode
\* puts the one byte of value XX in the place of the three characters.
C7_EscapeGivesItsByte ==
    (dec.done /\ OnePct(dec.input)) =>
        \A p \in {PctAt(dec.input)} :
            (p + 2 <= Len(dec.input)
                /\ dec.input[p + 1] \in HexDigits /\ dec.input[p + 2] \in HexDigits) =>
            as_bytes(dec.output)
                = as_bytes(SubSeq(dec.input, 1, p - 1))
                    \o <<16 * HexValue(dec.input[p + 1]) + HexValue(dec.input[p + 2])>>
                    \o as_bytes(SubSeq(dec.input, p + 3, Len(dec.input)))

\* C8 (as claimed): a '%' followed by fewer than two characters, or by two that
\* are not both hexadecimal digits, is consumed with what is there of the two
\* and gives nothing; every other character is in the output as it was.
C8_MalformedEscapeGivesNothing ==
    (dec.done /\ OnePct(dec.input)) =>
        \A p \in {PctAt(dec.input)} :
            (\/ p + 2 > Len(dec.input)
             \/ dec.input[p + 1] \notin HexDigits
             \/ dec.input[p + 2] \notin HexDigits) =>
            dec.output = SubSeq(dec.input, 1, p - 1) \o SubSeq(dec.input, p + 3, Len(dec.input))

\* C9: guess_mime gives the content type of the table for each known extension
\* and application/octet-stream for every other string: the empty one, unknown
\* extensions, known extensions written in upper or mixed case.
C9_MimeIsTableEntry ==
    mime.done =>
        /\ mime.output = TableEntry(mime.input)
        /\ (\A e \in MimeTable : e[1] # mime.input) => mime.output = "application/octet-stream"

\* guess_mime was given "HTML" and gave application/octet-stream.
C9_Witness ==
    /\ mime.done
    /\ mime.input = <<72, 84, 77, 76>>
    /\ mime.output = "application/octet-stream"

\* The line read from a connection: the input up to its first newline, nothing
\* when that is not valid UTF-8.
FirstLine(inp) ==
    LET n == IF LF \in Range(inp)
             THEN CHOOSE i \in DOMAIN inp : inp[i] = LF /\ \A j \in 1..(i - 1) : inp[j] # LF
             ELSE Len(inp)
    IN  IF BadByte \in Range(SubSeq(inp, 1, n)) THEN <<>> ELSE SubSeq(inp, 1, n)

\* The tokens of a line: where each run of characters that are not whitespace
\* starts and ends.
TokenRuns(line) ==
    {r \in (DOMAIN line) \X (DOMAIN line) :
        /\ r[1] <= r[2]
        /\ \A i \in r[1]..r[2] : ~IsWhitespace(line[i])
        /\ r[1] = 1 \/ IsWhitespace(line[r[1] - 1])
        /\ r[2] = Len(line) \/ IsWhitespace(line[r[2] + 1])}

\* The second token of a line, "/" when it has none.
SecondToken(line) ==
    LET runs == TokenRuns(line)
    IN  IF Cardinality(runs) < 2 THEN <<Slash>>
        ELSE LET r == CHOOSE x \in runs : Cardinality({y \in runs : y[1] < x[1]}) = 1
             IN  SubSeq(line, r[1], r[2])

\* The path each input of the model asks for.
AskedPath == [i \in Inputs |-> SecondToken(FirstLine(i))]

\* C10: the request path is the second whitespace-delimited token of the first
\* line read, "/" when there is none; the response follows from that token, the
\* filesystem and what the enumeration gave, so two request lines that differ
\* in the method or the version only are answered byte for byte the same.
C10_OnlyThePathCounts ==
    Answered =>
        /\ obs.path_str = AskedPath[conn.input]
        /\ \A r \in {Serve(fs, AskedPath[conn.input], obs.entries)} :
               out.response = r.response /\ log = r.log

\* POST /a/c.js HTTP/1.1 was answered with the file, as GET /a/c.js is.
C10_Witness ==
    /\ Answered /\ Delivered
    /\ conn.input = RequestLine(Post, <<47, 97, 47, 99, 46, 106, 115>>, Http11)
    /\ out.response.code = 200
    /\ out.response
          = Respond(fs, RequestLine(Get, <<47, 97, 47, 99, 46, 106, 115>>, <<>>), <<>>).response

\* C11: the response written on a connection, whatever connection was served
\* before it, is the response the same request line gets from a server that
\* served nothing before, on the same filesystem; the line buffer holds the
\* connection's own line only, and so do the path, the target and the log line.
C11_NothingOfTheConnectionBefore ==
    Answered =>
        /\ conn.first_line = FirstLine(conn.input)
        /\ \A r \in {Respond(fs, conn.input, obs.entries)} :
               out.response = r.response /\ log = r.log /\ obs = r.obs

\* After GET /B was served and its connection closed, GET /z is answered 404 with
\* the fixed body.
C11_Witness ==
    /\ Answered /\ Delivered
    /\ hist.input = FollowedInput
    /\ conn.input = RequestLine(Get, <<Slash, 122>>, Http11)
    /\ out.response = NotFoundResponse
    /\ log = <<>>

\* The server is in one of its two states; while it listens there is no
\* connection and nothing written; a response is on a connection that was read.
TwoStates ==
    /\ srv \in {"Listening", "Serving"}
    /\ srv = "Listening" => (conn = NoConn /\ out = NoOut)
    /\ out # NoOut => (srv = "Serving" /\ conn.answered /\ Len(out.writes) \in {1, 2})
    /\ (srv = "Serving" /\ ~conn.answered) => out = NoOut

\* From Listening the server goes to Serving by accepting one connection; a
\* connection is left only once answered, and back to Listening; what was
\* written on a connection is not written again or added to.
OneTurn ==
    /\ (srv = "Listening" /\ srv' # srv) => (srv' = "Serving" /\ ~conn'.answered)
    /\ (srv = "Serving" /\ srv' # srv) => (conn.answered /\ srv' = "Listening")
    /\ (srv = "Serving" /\ srv' = srv) => (conn'.input = conn.input /\ conn'.eof = conn.eof)
    /\ out # NoOut => (out' = out \/ (out' = NoOut /\ srv' = "Listening"))

Stalled == srv = "Serving" /\ ~conn.answered /\ LF \notin Range(conn.input) /\ ~conn.eof

\* C13: one connection is in service at a time: while the server is Serving the
\* connection stays the same one until it was answered and closed, and nothing
\* is accepted meanwhile; while a client that never completes its request line
\* is connected, nothing is answered, nothing is logged and no other connection
\* is accepted.
C13_OneConnectionAtATime ==
    [][ /\ (srv = "Serving" /\ ~conn.answered) =>
               /\ srv' = "Serving"
               /\ conn'.input = conn.input /\ conn'.eof = conn.eof
        /\ (srv = "Serving" /\ conn.answered) =>
               \/ conn' = conn /\ out' = out /\ srv' = srv
               \/ srv' = "Listening" /\ conn' = NoConn
        /\ Stalled =>
               /\ Stalled'
               /\ UNCHANGED <<srv, conn, out, log, obs, hist>> ]_vars

\* After a connection was served, a client has sent GET /B without a newline
\* and keeps its connection open.
C13_Witness ==
    /\ Stalled
    /\ hist.input = FollowedInput
    /\ conn.input = <<71, 69, 84, SP, 47, 66>>
    /\ out = NoOut

\* C14 (as claimed): every response with a body that is not empty carries a
\* Content-Type header and a Content-Length header: listings, files and the 404
\* response alike.
C14_BodyHasTypeAndLength ==
    (Answered /\ WireLen(out.response.body) > 0) =>
        /\ HeaderSet(out.response, "Content-Type") # {}
        /\ HeaderSet(out.response, "Content-Length") # {}

\* A decoded path without its first character when that is a '/'.
WithoutOneSlash(d) == IF d # <<>> /\ d[1] = Slash THEN SubSeq(d, 2, Len(d)) ELSE d

\* A decoded path from its first character that is not a '/'.
WithoutLeadingSlashes(d) ==
    LET rest == {k \in DOMAIN d : d[k] # Slash}
    IN  IF rest = {} THEN <<>>
        ELSE SubSeq(d, CHOOSE k \in rest : \A j \in rest : k <= j, Len(d))

\* The root directory joined with a remainder taken as it stands.
RootJoined(rem) == IF rem = <<>> THEN dir ELSE dir \o <<Slash>> \o rem

\* C15 (as claimed): the resolver strips exactly one leading '/' from the decoded
\* path; the target is the root when the remainder is empty, otherwise the root
\* joined with the remainder as it stands.
C15_OneSlashStripped ==
    Answered => obs.full_path = RootJoined(WithoutOneSlash(obs.decoded))

\* C15 (amended): the resolver strips every leading '/' from the decoded path;
\* the target is the root when the remainder is empty, otherwise the root joined
\* with the remainder as it stands.
C15_LeadingSlashesStripped ==
    Answered => obs.full_path = RootJoined(WithoutLeadingSlashes(obs.decoded))

\* //B was asked for and the file B of the root was served.
C15_Witness ==
    /\ Answered /\ Delivered
    /\ obs.decoded = <<Slash, Slash, 66>>
    /\ obs.full_path = dir \o <<Slash, 66>>
    /\ obs.kind = "File" /\ out.response.code = 200

\* How many '..' segments a path has.
DotDots(p) ==
    LET comps == SplitSlash(p, <<>>)
    IN  Cardinality({i \in DOMAIN comps : comps[i] = <<Dot, Dot>>})

\* What the system finds under the root for the decoded path with its '.' and
\* '..' segments left in.
Asked == metadata(fs, as_bytes(RootJoined(WithoutLeadingSlashes(obs.decoded))))

\* A node that is not the root nor below it.
OutsideRoot(n) == n = <<>> \/ n[1] # NodeR[1]

\* C16: '.' and '..' segments, literal or percent-encoded, are neither rejected
\* nor normalised: they are in the resolved path as they are in the decoded one,
\* and a file or directory they lead to, outside the root too, is served with 200
\* like one inside.
C16_DotDotIsServed ==
    Answered =>
        /\ DotDots(obs.full_path) = DotDots(obs.decoded)
        /\ \A t \in {Asked} :
            /\ (t.ok /\ fs[t.node].kind = "file" /\ fs[t.node].readable) =>
                   /\ out.response.code = 200
                   /\ out.response.body = <<Raw(fs[t.node].data)>>
            /\ (t.ok /\ fs[t.node].kind = "dir") =>
                   /\ out.response.code = 200
                   /\ HeaderSet(out.response, "Content-Type") = {ContentType("text/html")}
                   /\ \A i \in DOMAIN obs.entries : Append(t.node, obs.entries[i]) \in Nodes

\* /%2e%2e/s was asked for and the file /s, beside the root /r, went out.
C16_Witness ==
    /\ Answered /\ Delivered
    /\ obs.path_str = <<47, 37, 50, 101, 37, 50, 101, 47, 115>>
    /\ obs.decoded = <<Slash, Dot, Dot, Slash, 115>>
    /\ Asked.ok /\ Asked.node = NodeS /\ OutsideRoot(Asked.node)
    /\ out.response.code = 200
    /\ out.response.body = <<Raw(fs[NodeS].data)>>

\* A write of the response has failed.
WriteFailed == out.writes # <<>> /\ ~Delivered

\* C17: a failed socket write is swallowed: the process goes on serving; each
\* write of the response was made once, the header and the data of a file both,
\* and nothing is written again; nothing is logged about the failure; the only
\* step the server then takes is to drop the connection, and it gets back to
\* Listening with no connection, as after a response that was sent.
C17_WriteFailureSwallowed ==
    /\ [](WriteFailed =>
            /\ srv = "Serving" /\ conn.answered
            /\ Len(out.writes) = IF obs.kind = "File" /\ obs.read_ok THEN 2 ELSE 1
            /\ log = IF obs.kind = "File" /\ obs.read_ok THEN <<obs.path_str>> ELSE <<>>)
    /\ [][WriteFailed =>
            \/ UNCHANGED <<srv, conn, out, log, obs, hist>>
            \/ srv' = "Listening" /\ conn' = NoConn /\ out' = NoOut /\ log' = <<>>]_vars
    /\ WriteFailed ~> (srv = "Listening" /\ conn = NoConn /\ out = NoOut)

\* Both writes of a file response failed: the header's and the data's.
C17_Witness ==
    /\ Answered
    /\ obs.kind = "File" /\ out.response.code = 200
    /\ out.writes = <<FALSE, FALSE>>

\* C18 (as claimed): a log line with the request path is printed for a
\* connection exactly when its file request was served: the file was read and
\* the 200 response was sent; no line for listings, 404 and 500; one line at most.
C18_LoggedIffServed ==
    Answered =>
        /\ Len(log) <= 1
        /\ \A i \in DOMAIN log : log[i] = obs.path_str
        /\ log # <<>> <=>
              /\ TargetIs("file") /\ fs[Target.node].readable
              /\ out.response.code = 200
              /\ Delivered

\* C18 (amended): a log line with the request path is printed for a connection
\* exactly when its target is a file that was read, before the response is
\* written and whether or not the writes then succeed; no line for listings,
\* 404 and 500; one line at most.
C18_LoggedIffRead ==
    Answered =>
        /\ Len(log) <= 1
        /\ \A i \in DOMAIN log : log[i] = obs.path_str
        /\ log # <<>> <=> (TargetIs("file") /\ fs[Target.node].readable)
        /\ log # <<>> => (out.response.code = 200 /\ obs.kind = "File")
        /\ (obs.kind = "Directory" \/ out.response.code \in {404, 500}) => log = <<>>

\* /a/c.js was read and logged as it was asked for, and both writes failed.
C18_Witness ==
    /\ Answered /\ ~Delivered
    /\ obs.path_str = <<47, 97, 47, 99, 46, 106, 115>>
    /\ out.response.code = 200
    /\ out.writes = <<FALSE, FALSE>>
    /\ log = << <<47, 97, 47, 99, 46, 106, 115>> >>

\* No request line is obtained from what a client sent: nothing came before it
\* closed, the line has whitespace only, or the line is not valid UTF-8.
NoRequestLine(inp) ==
    \/ inp = <<>>
    \/ \E n \in DOMAIN inp :
          /\ inp[n] = LF /\ \A j \in 1..(n - 1) : inp[j] # LF
          /\ \/ \A j \in 1..n : inp[j] \in {9, 10, 13, 32}
             \/ \E j \in 1..n : inp[j] = BadByte

\* C19: when no request line is obtained from an accepted connection, the
\* connection is not dropped without an answer: the path is "/", the target the
\* root directory, and the 200 listing of the root is written, its links
\* starting at "/".
C19_NoLineGetsRootListing ==
    (Answered /\ NoRequestLine(conn.input)) =>
        /\ obs.path_str = <<Slash>> /\ obs.full_path = dir
        /\ obs.kind = "Directory"
        /\ out.response.code = 200 /\ out.response.reason = "OK"
        /\ HeaderSet(out.response, "Content-Type") = {ContentType("text/html")}
        /\ HeaderSet(out.response, "Content-Length")
               = {ContentLength(WireLen(out.response.body))}
        /\ Len(out.writes) = 1 /\ log = <<>>
        /\ \A items \in {ListedItems(out.response.body)} :
               /\ Len(items) = Len(obs.entries)
               /\ \A k \in DOMAIN items :
                      /\ Append(NodeR, obs.entries[k]) \in Children(fs, NodeR)
                      /\ items[k].href = <<Slash>> \o items[k].text

\* GET /B followed by a byte that is not UTF-8: the listing of the root, with its
\* two entries, went out, not the file B.
C19_Witness ==
    /\ Answered /\ Delivered
    /\ conn.input = <<71, 69, 84, SP, 47, 66, BadByte, LF>>
    /\ conn.first_line = <<>>
    /\ fs[NodeB].kind = "file"
    /\ obs.kind = "Directory" /\ out.response.code = 200
    /\ Len(ListedItems(out.response.body)) = 2

\* A well-formed listing: the head with its heading, whole list items only, and
\* the closing tail.
WellFormedListing(body) ==
    \E n \in {(Len(body) - 6) \div 7} :
        /\ Len(body) = 5 + 7 * n + 1
        /\ body[1] = Lit("<html><head><meta charset='utf-8'></head><body><h2>")
        /\ body[5] = Lit("</h2><ul>")
        /\ \A k \in 0..(n - 1) :
              /\ body[5 + 7 * k + 1] = Lit("<li>")
              /\ body[5 + 7 * k + 7] = Lit("</a></li>")
        /\ body[Len(body)] = Lit("</ul></body></html>")
        /\ Len(ListedItems(body)) = n

\* C20: a target classified as a directory is answered 200 OK, text/html, with
\* a well-formed listing, whatever its enumeration gives: no item when the
\* directory cannot be enumerated, and only the children whose entries were read
\* otherwise; never 404 or 500.
C20_DirectoryAlwaysListed ==
    (Answered /\ TargetIs("dir")) =>
        /\ obs.kind = "Directory"
        /\ out.response.code = 200 /\ out.response.code \notin {404, 500}
        /\ HeaderSet(out.response, "Content-Type") = {ContentType("text/html")}
        /\ WellFormedListing(out.response.body)
        /\ \A items \in {ListedItems(out.response.body)} :
               /\ ~fs[Target.node].readable => items = <<>>
               /\ Len(items) <= Cardinality(ChildNames)
               /\ \A k \in DOMAIN items :
                      \E name \in ChildNames : items[k].text = to_string_lossy(name)

\* /a cannot be enumerated and has a child: it is answered 200 with a listing
\* that has no item.
C20_Witness ==
    /\ Answered /\ Delivered
    /\ Target.ok /\ Target.node = NodeA /\ ~fs[NodeA].readable
    /\ ChildNames # {}
    /\ out.response.code = 200
    /\ ListedItems(out.response.body) = <<>>

====
